---------------------------- MODULE Spec2Model ----------------------------
(***************************************************************************)
(* Model of the performance-profile tools                                  *)
(*   src/src/tools/perfprof/plot.py      (read_csv, process_data,          *)
(*                                        generate_plot, main)             *)
(*   src/src/tools/perfprof/perfprof.py  (readTable, get_plt_ticks, main)  *)
(*                                                                         *)
(* Numbers.  The programs compute with IEEE-754 doubles.  The model uses   *)
(* exact rationals <<n, d>> in lowest terms with d > 0, extended with the  *)
(* three special values the programs can produce by dividing by zero:      *)
(*   <<1, 0>> = +inf,  <<-1, 0>> = -inf,  <<0, 0>> = NaN.                  *)
(* Comparisons with NaN are false, as in IEEE-754.  Binary rounding error  *)
(* of finite values is not modelled.                                       *)
(***************************************************************************)
EXTENDS Integers, Sequences, FiniteSets, TLC

VARIABLES
    prog,            \* which script runs: "plot" or "perfprof"
    pc,              \* position inside main()
    file,            \* the input file: a sequence of lines, each a sequence of characters
    opt,             \* the parsed command line options
    solver_names,    \* read_csv: solver_names / readTable: cnames
    instance_names,  \* read_csv: instance_names / readTable: rnames
    raw_data,        \* the matrix as parsed (plot.py keeps a copy of it)
    data,            \* the matrix being transformed
    x_min,           \* resolved axis range
    x_max,
    sx,              \* what the renderer is handed: one x-sequence per solver
    sy,              \* ... and the shared y-sequence
    xticks,
    yticks,
    saved,           \* plt.savefig was called
    error,           \* "" or the name of the exception / diagnostic that ended the run
    exit_code,       \* process exit status once the run has ended, None before
    targs,           \* arguments of a direct get_plt_ticks call
    tout             \* its result

vars == <<prog, pc, file, opt, solver_names, instance_names, raw_data, data,
          x_min, x_max, sx, sy, xticks, yticks, saved, error, exit_code,
          targs, tout>>

\* Python's None; a one-element tuple, so that it compares with the numbers
None == <<"None">>

-----------------------------------------------------------------------------
(* Extended rational arithmetic                                            *)

RECURSIVE GCD(_, _)
GCD(a, b) == IF b = 0 THEN a ELSE GCD(b, a % b)

Abs(n) == IF n < 0 THEN -n ELSE n

Sgn(n) == IF n < 0 THEN -1 ELSE IF n > 0 THEN 1 ELSE 0

\* the number n/d in lowest terms; d = 0 gives inf, -inf or NaN by the sign of n
Q(n, d) ==
    IF d = 0 THEN <<Sgn(n), 0>>
    ELSE LET g == GCD(Abs(n), Abs(d))
             s == IF d < 0 THEN -1 ELSE 1
         IN  <<s * (n \div g), s * (d \div g)>>

I(n) == <<n, 1>>

NaN == <<0, 0>>
Inf == <<1, 0>>
NegInf == <<-1, 0>>

IsNaN(a) == a = NaN
IsFinite(a) == a[2] # 0

Neg(a) == <<-a[1], a[2]>>

Add(a, b) ==
    IF IsNaN(a) \/ IsNaN(b) THEN NaN
    ELSE IF ~IsFinite(a) THEN (IF ~IsFinite(b) /\ b # a THEN NaN ELSE a)
    ELSE IF ~IsFinite(b) THEN b
    ELSE Q(a[1] * b[2] + b[1] * a[2], a[2] * b[2])

Sub(a, b) == Add(a, Neg(b))

\* a / b; x/0 is +-inf, 0/0 and inf/inf are NaN (numpy warns and continues)
Div(a, b) ==
    IF IsNaN(a) \/ IsNaN(b) THEN NaN
    ELSE IF ~IsFinite(a) THEN
        (IF ~IsFinite(b) THEN NaN
         ELSE IF b[1] < 0 THEN Neg(a) ELSE a)
    ELSE IF ~IsFinite(b) THEN I(0)
    ELSE Q(a[1] * b[2], a[2] * b[1])

Lt(a, b) ==
    /\ ~IsNaN(a)
    /\ ~IsNaN(b)
    /\ IF ~IsFinite(a) /\ ~IsFinite(b) THEN a[1] < b[1]
       ELSE a[1] * b[2] < b[1] * a[2]

Eq(a, b) == ~IsNaN(a) /\ ~IsNaN(b) /\ a = b

Le(a, b) == Lt(a, b) \/ Eq(a, b)

Ge(a, b) == Le(b, a)

Gt(a, b) == Lt(b, a)

RECURSIVE Pow10(_)
Pow10(k) == IF k = 0 THEN 1 ELSE 10 * Pow10(k - 1)

\* Python's round(x, ndigits): nearest multiple of 10^-ndigits, ties to even;
\* inf and NaN are returned unchanged
Round(x, ndigits) ==
    IF ~IsFinite(x) THEN x
    ELSE LET s == Pow10(ndigits)
             m == x[1] * s
             q == m \div x[2]
             r == m % x[2]
             k == IF 2 * r < x[2] THEN q
                  ELSE IF 2 * r > x[2] THEN q + 1
                  ELSE IF q % 2 = 0 THEN q ELSE q + 1
         IN  Q(k, s)

\* ceil of a finite rational
Ceil(x) == -((-x[1]) \div x[2])

Range(s) == {s[i] : i \in 1..Len(s)}

-----------------------------------------------------------------------------
(* Tick generation                                                         *)

\* list(dict.fromkeys(x)): first occurrence of each value, order kept
RECURSIVE KeepUniqs(_, _)
KeepUniqs(x, seen) ==
    IF x = <<>> THEN <<>>
    ELSE IF x[1] \in seen THEN KeepUniqs(Tail(x), seen)
    ELSE <<x[1]>> \o KeepUniqs(Tail(x), seen \cup {x[1]})

\* np.arange(start, stop, step) for finite arguments and step # 0:
\* ceil((stop - start) / step) values start + i * step
ArangeLen(start, stop, step) ==
    LET n == Ceil(Div(Sub(stop, start), step)) IN IF n < 0 THEN 0 ELSE n

Arange(start, stop, step) ==
    [i \in 1..ArangeLen(start, stop, step) |->
        Add(start, Q((i - 1) * step[1], step[2]))]

\* np.arange raises for a NaN/inf bound or step and for step = 0
ArangeRaises(start, stop, step) ==
    ~IsFinite(start) \/ ~IsFinite(stop) \/ ~IsFinite(step) \/ step = I(0)

PLOT_ROUND_DIGITS == 3
PERFPROF_ROUND_DIGITS == 2
TICK_COUNT == 8

\* ub = lb + 1.0 when ub == lb
TickUpper(lb, ub) == IF Eq(ub, lb) THEN Add(lb, I(1)) ELSE ub

TickStep(lb, ub, cnt) == Div(Sub(TickUpper(lb, ub), lb), I(cnt))

\* whether get_plt_ticks raises (ValueError of np.arange)
TicksRaise(lb, ub, cnt) == ArangeRaises(lb, TickUpper(lb, ub), TickStep(lb, ub, cnt))

\* the variant that forgets to add the two endpoints
TicksWithoutEndpoints(lb, ub, cnt, ndigits) ==
    LET u == KeepUniqs(Arange(lb, TickUpper(lb, ub), TickStep(lb, ub, cnt)), {})
    IN  [i \in 1..Len(u) |-> Round(u[i], ndigits)]

\* the body shared by plot.py's and perfprof.py's get_plt_ticks, which differ
\* in the rounding precision only, when np.arange does not raise.
\* Duplicates are removed BEFORE the values are rounded.
TicksOf(lb, ub, cnt, ndigits) ==
    LET u == KeepUniqs(<<lb, TickUpper(lb, ub)>>
                       \o Arange(lb, TickUpper(lb, ub), TickStep(lb, ub, cnt)), {})
    IN  [i \in 1..Len(u) |-> Round(u[i], ndigits)]

get_plt_ticks(lb, ub, cnt) == TicksOf(lb, ub, cnt, PLOT_ROUND_DIGITS)

perfprof_get_plt_ticks(lb, ub, cnt) == TicksOf(lb, ub, cnt, PERFPROF_ROUND_DIGITS)

-----------------------------------------------------------------------------
(* Text: a string is a sequence of one-character strings                   *)

DigitChars == <<"0", "1", "2", "3", "4", "5", "6", "7", "8", "9">>

IsDigit(c) == \E i \in 1..10 : DigitChars[i] = c

DigitVal(c) == (CHOOSE i \in 1..10 : DigitChars[i] = c) - 1

IsSpace(c) == c \in {" ", "\n"}

\* str.strip(): leading and trailing whitespace removed
RECURSIVE LStrip(_)
LStrip(s) == IF s # <<>> /\ IsSpace(s[1]) THEN LStrip(Tail(s)) ELSE s

RECURSIVE RStrip(_)
RStrip(s) ==
    IF s # <<>> /\ IsSpace(s[Len(s)]) THEN RStrip(SubSeq(s, 1, Len(s) - 1)) ELSE s

Strip(s) == RStrip(LStrip(s))

\* str.split(sep) for a one-character sep: every occurrence separates, empty
\* fields are kept, "" splits to [""]
RECURSIVE SplitOn(_, _, _)
SplitOn(s, sep, cur) ==
    IF s = <<>> THEN <<cur>>
    ELSE IF s[1] = sep THEN <<cur>> \o SplitOn(Tail(s), sep, <<>>)
    ELSE SplitOn(Tail(s), sep, Append(cur, s[1]))

\* str.split(None): runs of whitespace separate, no empty fields, "" splits to []
RECURSIVE SplitWs(_, _)
SplitWs(s, cur) ==
    IF s = <<>> THEN (IF cur = <<>> THEN <<>> ELSE <<cur>>)
    ELSE IF IsSpace(s[1]) THEN
        (IF cur = <<>> THEN <<>> ELSE <<cur>>) \o SplitWs(Tail(s), <<>>)
    ELSE SplitWs(Tail(s), Append(cur, s[1]))

\* the delimiter option is None or a one-character string
Split(s, delimiter) ==
    IF delimiter = None THEN SplitWs(s, <<>>) ELSE SplitOn(s, delimiter[1], <<>>)

RECURSIVE DigitsVal(_)
DigitsVal(s) ==
    IF s = <<>> THEN 0
    ELSE 10 * DigitsVal(SubSeq(s, 1, Len(s) - 1)) + DigitVal(s[Len(s)])

\* an unsigned decimal literal: digits with at most one ".", at least one digit
IsDecimal(s) ==
    /\ \A i \in 1..Len(s) : IsDigit(s[i]) \/ s[i] = "."
    /\ Cardinality({i \in 1..Len(s) : s[i] = "."}) <= 1
    /\ \E i \in 1..Len(s) : IsDigit(s[i])

DecimalVal(s) ==
    LET dots == {i \in 1..Len(s) : s[i] = "."}
        p == IF dots = {} THEN Len(s) + 1 ELSE CHOOSE i \in dots : TRUE
        ip == SubSeq(s, 1, p - 1)
        fp == SubSeq(s, p + 1, Len(s))
    IN  Q(DigitsVal(ip) * Pow10(Len(fp)) + DigitsVal(fp), Pow10(Len(fp)))

\* float(s) on the model's alphabet (digits, ".", sign, lowercase letters without
\* "e", blanks): surrounding blanks are ignored, "nan", "inf" and "infinity" are
\* accepted, anything else that is no decimal literal is a ValueError
Unsigned(str) ==
    LET t == Strip(str)
    IN  IF t # <<>> /\ t[1] \in {"-", "+"} THEN Tail(t) ELSE t

IsNegative(str) == LET t == Strip(str) IN t # <<>> /\ t[1] = "-"

InfLiterals == {<<"i", "n", "f">>, <<"i", "n", "f", "i", "n", "i", "t", "y">>}

IsFloatLiteral(str) ==
    \/ Unsigned(str) = <<"n", "a", "n">>
    \/ Unsigned(str) \in InfLiterals
    \/ IsDecimal(Unsigned(str))

ParseFloat(str) ==
    LET u == Unsigned(str)
        v == IF u = <<"n", "a", "n">> THEN NaN
             ELSE IF u \in InfLiterals THEN Inf
             ELSE DecimalVal(u)
    IN  IF IsNegative(str) THEN Neg(v) ELSE v

-----------------------------------------------------------------------------
(* Table reader: plot.py read_csv, perfprof.py readTable (same statements) *)

\* one data line: the exception it raises ("" if none), its name and its values
ReadRow(line, delimiter, ncols) ==
    LET row == Split(Strip(line), delimiter)
        \* the first j for which row[j + 1] or float(...) raises
        bad == {j \in 1..ncols :
                    Len(row) < j + 1 \/ ~IsFloatLiteral(row[j + 1])}
        first == CHOOSE j \in bad : \A k \in bad : j <= k
    IN  IF row = <<>> THEN [err |-> "IndexError", name |-> <<>>, rdata |-> <<>>]
        ELSE IF bad # {} THEN
            [err |-> IF Len(row) < first + 1 THEN "IndexError" ELSE "ValueError",
             name |-> row[1], rdata |-> <<>>]
        ELSE [err |-> "", name |-> row[1],
              rdata |-> [j \in 1..ncols |-> ParseFloat(row[j + 1])]]

RECURSIVE ReadRows(_, _, _)
ReadRows(lines, delimiter, ncols) ==
    IF lines = <<>> THEN [err |-> "", names |-> <<>>, rows |-> <<>>]
    ELSE LET r == ReadRow(lines[1], delimiter, ncols)
         IN  IF r.err # "" THEN [err |-> r.err, names |-> <<>>, rows |-> <<>>]
             ELSE LET rest == ReadRows(Tail(lines), delimiter, ncols)
                  IN  IF rest.err # "" THEN rest
                      ELSE [err |-> "",
                            names |-> <<r.name>> \o rest.names,
                            rows |-> <<r.rdata>> \o rest.rows]

\* the variant that takes every header field for a solver name
HeaderNamesKeepFirst(firstline) == firstline

\* solver_names = firstline[1:]: the first header field is dropped
HeaderNames(firstline) == Tail(firstline)

\* read_csv(fp, delimiter); readline() of an empty file is ""
read_csv(f, delimiter) ==
    LET firstline == Split(Strip(IF f = <<>> THEN <<>> ELSE f[1]), delimiter)
        ncols == Len(firstline) - 1
        body == ReadRows(IF f = <<>> THEN <<>> ELSE Tail(f), delimiter, ncols)
    IN  IF ncols < 0
        THEN \* split(None) of a blank header is []: ncols = -1 and firstline[1:] = [];
             \* on the first data line row[0] or np.empty(-1) raises
             [err |-> IF Len(f) <= 1 THEN ""
                      ELSE IF Split(Strip(f[2]), delimiter) = <<>> THEN "IndexError"
                      ELSE "ValueError",
              instance_names |-> <<>>, solver_names |-> <<>>, data |-> <<>>]
        ELSE [err |-> body.err,
              instance_names |-> body.names,
              solver_names |-> HeaderNames(firstline),
              data |-> body.rows]

\* data.shape == (0,): np.array([]) of a file without data lines
IsEmptyShape(d) == d = <<>>

-----------------------------------------------------------------------------
(* Matrices: a sequence of rows, each a sequence of numbers                *)

NRows(m) == Len(m)
NCols(m) == IF m = <<>> THEN 0 ELSE Len(m[1])

Cells(m) == {<<i, j>> : i \in 1..NRows(m), j \in 1..NCols(m)}

\* numpy's min / max of a non-empty collection: NaN if any member is NaN
MinOfSet(S) ==
    IF NaN \in S THEN NaN ELSE CHOOSE v \in S : \A w \in S : Le(v, w)

MaxOfSet(S) ==
    IF NaN \in S THEN NaN ELSE CHOOSE v \in S : \A w \in S : Ge(v, w)

\* m.min(axis=1)
RowMinima(m) == [i \in 1..NRows(m) |-> MinOfSet(Range(m[i]))]

CellValues(m) == {m[c[1]][c[2]] : c \in Cells(m)}

\* m.min(), m.max(); both raise ValueError on an array without cells
DataMin(m) == MinOfSet(CellValues(m))
DataMax(m) == MaxOfSet(CellValues(m))

\* m + s
Shifted(m, s) == [i \in 1..NRows(m) |-> [j \in 1..NCols(m) |-> Add(m[i][j], s)]]

\* for j: m[:, j] = m[:, j] / b   (b has one entry per row)
DividedByRow(m, b) ==
    [i \in 1..NRows(m) |-> [j \in 1..NCols(m) |-> Div(m[i][j], b[i])]]

Column(m, j) == [i \in 1..NRows(m) |-> m[i][j]]

EPS == 1000000

-----------------------------------------------------------------------------
(* plot.py: process_data                                                   *)

\* baseline = p.data.min(axis=1): the minima of the rows as read, before the shift
Baseline(p_data, shift) == RowMinima(p_data)

\* data after the raw_data / ratio branch
RatioData(p_data, o) ==
    IF o.raw_data THEN p_data
    ELSE DividedByRow(Shifted(p_data, o.shift), Baseline(p_data, o.shift))

\* x_min, x_max before the degenerate-range guard
ResolveMin(o, d) == IF o.x_min # None THEN o.x_min ELSE DataMin(d)
ResolveMax(o, d) == IF o.x_max # None THEN o.x_max ELSE DataMax(d)

\* if x_min >= x_max: x_max = x_min + 1.0
GuardMax(lo, hi) == IF Ge(lo, hi) THEN Add(lo, I(1)) ELSE hi

\* the conditions of the remap loop, on the matrix as read
RemapsHigh(o, raw, i, j) ==
    o.x_raw_upper_limit # None /\ Ge(raw[i][j], o.x_raw_upper_limit)

RemapsLow(o, raw, i, j) ==
    o.x_raw_lower_limit # None /\ Le(raw[i][j], o.x_raw_lower_limit)

\* the variant with the sign of the offset flipped
LowSentinelAbove(lo) == Add(lo, I(EPS))

\* x_min - 1e6, x_max + 1e6
LowSentinel(lo) == Sub(lo, I(EPS))
HighSentinel(hi) == Add(hi, I(EPS))

\* the remap loop: the lower test comes second and wins
Remapped(o, raw, d, lo, hi) ==
    [i \in 1..NRows(d) |-> [j \in 1..NCols(d) |->
        IF RemapsLow(o, raw, i, j) THEN LowSentinel(lo)
        ELSE IF RemapsHigh(o, raw, i, j) THEN HighSentinel(hi)
        ELSE d[i][j]]]

\* what raises in process_data: the reductions of an array without columns
ProcessRaises(p_data, o) ==
    NCols(p_data) = 0 /\ (~o.raw_data \/ o.x_min = None \/ o.x_max = None)

\* process_data(p, opt) for a matrix with at least one row
process_data(p_data, o) ==
    IF ProcessRaises(p_data, o)
    THEN [err |-> "ValueError", x_min |-> None, x_max |-> None, data |-> None]
    ELSE LET d == RatioData(p_data, o)
             lo == ResolveMin(o, d)
             hi == GuardMax(lo, ResolveMax(o, d))
         IN  [err |-> "", x_min |-> lo, x_max |-> hi,
              data |-> Remapped(o, p_data, d, lo, hi)]

\* x = np.copy(p.data).sort(axis=0): ndarray.sort sorts the copy in place and
\* returns None, so x is None and no array
generate_plot_x(d) == [is_none |-> TRUE, array |-> <<>>]

\* y = np.arange(nrows) / nrows
EvenlySpaced(nrows) == [i \in 1..nrows |-> Q(i - 1, nrows)]

-----------------------------------------------------------------------------
(* perfprof.py: main, lines 179-215                                        *)

\* x <= -1e21 and x >= 1e21.  Every finite value of the model is smaller in
\* magnitude than 1e21, so only the infinities pass.  The defaults -1e99 and
\* +1e99 of x_lower_limit and x_upper_limit are beyond every finite value of
\* the model as well and are represented by -inf and +inf.
IsBelowMinus1e21(x) == x = NegInf
IsAbove1e21(x) == x = Inf

\* Python's max(a, b) and min(a, b): the first argument unless the second
\* compares strictly beyond it
PyMax(a, b) == IF Gt(b, a) THEN b ELSE a
PyMin(a, b) == IF Lt(b, a) THEN b ELSE a

\* numpy's sort: ascending, NaN last
RECURSIVE SortAsc(_)
SortAsc(S) ==
    IF S = <<>> THEN <<>>
    ELSE LET nums == {i \in 1..Len(S) : ~IsNaN(S[i])}
         IN  IF nums = {} THEN S
             ELSE LET k == CHOOSE i \in nums : \A l \in nums : Le(S[i], S[l])
                  IN  <<S[k]>> \o SortAsc([i \in 1..(Len(S) - 1) |->
                                              IF i < k THEN S[i] ELSE S[i + 1]])

\* data.sort(axis=0): every column sorted on its own
SortColumns(m) ==
    LET cols == [j \in 1..NCols(m) |-> SortAsc(Column(m, j))]
    IN  [i \in 1..NRows(m) |-> [j \in 1..NCols(m) |-> cols[j][i]]]

\* the exception lines 187-201 raise, "" if none.  With --plot-as-ratios the
\* four options become arrays with one entry per row: None / array is a
\* TypeError, and the truth value of an array of more than one entry is a
\* ValueError
PerfprofRaises(d, o) ==
    IF o.plot_as_ratios /\ NCols(d) = 0 THEN "ValueError"
    ELSE IF o.plot_as_ratios /\ (o.x_min = None \/ o.x_max = None) THEN "TypeError"
    ELSE IF o.plot_as_ratios /\ NRows(d) > 1 THEN "ValueError"
    ELSE IF NCols(d) = 0 /\ (o.x_min = None \/ IsBelowMinus1e21(o.x_min)
                             \/ o.x_max = None \/ IsAbove1e21(o.x_max))
         THEN "ValueError"
    ELSE ""

\* lines 179-212 for a matrix with at least one row; in ratio mode the run
\* gets here with one row only, and every per-row array has that one entry
perfprof_transform(d0, o) ==
    IF PerfprofRaises(d0, o) # ""
    THEN [err |-> PerfprofRaises(d0, o), x_min |-> None, x_max |-> None,
          data |-> None]
    ELSE LET d1 == Shifted(d0, o.shift)
             minima == RowMinima(d1)
             s == IF o.plot_as_ratios THEN minima[1] ELSE I(1)
             d2 == IF o.plot_as_ratios THEN DividedByRow(d1, minima) ELSE d1
             ll == IF o.plot_as_ratios THEN Div(o.x_lower_limit, s)
                   ELSE o.x_lower_limit
             ul == IF o.plot_as_ratios THEN Div(o.x_upper_limit, s)
                   ELSE o.x_upper_limit
             gmin == IF o.plot_as_ratios THEN Div(o.x_min, s) ELSE o.x_min
             gmax == IF o.plot_as_ratios THEN Div(o.x_max, s) ELSE o.x_max
             eps == IF o.plot_as_ratios THEN Div(I(EPS), s) ELSE I(EPS)
             lo == IF gmin = None \/ IsBelowMinus1e21(gmin)
                   THEN PyMax(ll, DataMin(d2)) ELSE gmin
             hi == IF gmax = None \/ IsAbove1e21(gmax)
                   THEN PyMin(ul, DataMax(d2)) ELSE gmax
             d3 == [i \in 1..NRows(d2) |-> [j \in 1..NCols(d2) |->
                       LET v == IF Ge(d2[i][j], ul) THEN Add(hi, eps) ELSE d2[i][j]
                       IN  IF Le(v, ll) THEN Sub(lo, eps) ELSE v]]
         IN  [err |-> "", x_min |-> lo,
              x_max |-> IF Eq(lo, hi) THEN Add(lo, I(1)) ELSE hi,
              data |-> d3]

PLOT_MAX_LEGEND_NAME_LEN == 64

\* lines 172-174: names of 64 characters or more are cut to 60 and " ..."
TruncatedName(name) ==
    IF Len(name) >= PLOT_MAX_LEGEND_NAME_LEN
    THEN SubSeq(name, 1, PLOT_MAX_LEGEND_NAME_LEN - 4) \o <<" ", ".", ".", ".">>
    ELSE name

-----------------------------------------------------------------------------
(* The runs: main() of plot.py and of perfprof.py                          *)

\* an uncaught exception ends the interpreter with status 1
Raise(exc) ==
    /\ error' = exc
    /\ exit_code' = 1
    /\ pc' = "exit"

\* plot.py line 389: parsed_contents = read_csv(open(opt.input), opt.delimiter)
plot_read ==
    /\ prog = "plot"
    /\ pc = "read"
    /\ LET r == read_csv(file, opt.delimiter)
       IN  IF r.err # ""
           THEN /\ Raise(r.err)
                /\ UNCHANGED <<solver_names, instance_names, raw_data, data>>
           ELSE /\ solver_names' = r.solver_names
                /\ instance_names' = r.instance_names
                /\ raw_data' = r.data
                /\ data' = r.data
                /\ pc' = "check"
                /\ UNCHANGED <<error, exit_code>>
    /\ UNCHANGED <<prog, file, opt, x_min, x_max, sx, sy, xticks, yticks, saved,
                   targs, tout>>

\* plot.py lines 391-393: errprint(...); sys.exit(-1), exit status 255
plot_check_empty ==
    /\ prog = "plot"
    /\ pc = "check"
    /\ IF IsEmptyShape(raw_data)
       THEN /\ error' = "Cannot retrieve data"
            /\ exit_code' = 255
            /\ pc' = "exit"
       ELSE /\ pc' = "process"
            /\ UNCHANGED <<error, exit_code>>
    /\ UNCHANGED <<prog, file, opt, solver_names, instance_names, raw_data, data,
                   x_min, x_max, sx, sy, xticks, yticks, saved, targs, tout>>

\* plot.py lines 395-398: p = process_data(parsed_contents, opt)
plot_process_data ==
    /\ prog = "plot"
    /\ pc = "process"
    /\ LET p == process_data(raw_data, opt)
       IN  IF p.err # ""
           THEN /\ Raise(p.err)
                /\ UNCHANGED <<data, x_min, x_max>>
           ELSE /\ data' = p.data
                /\ x_min' = p.x_min
                /\ x_max' = p.x_max
                /\ pc' = "plot"
                /\ UNCHANGED <<error, exit_code>>
    /\ UNCHANGED <<prog, file, opt, solver_names, instance_names, raw_data,
                   sx, sy, xticks, yticks, saved, targs, tout>>

\* plot.py lines 400-403: generate_plot(p, opt, names); plt.savefig(opt.output).
\* x[:, j] of the first solver raises TypeError when x is None.
plot_generate_plot ==
    /\ prog = "plot"
    /\ pc = "plot"
    /\ LET x == generate_plot_x(data)
           series == IF x.is_none THEN <<>>
                     ELSE [j \in 1..NCols(data) |-> Column(x.array, j)]
       IN  IF x.is_none /\ NCols(data) >= 1
           THEN /\ Raise("TypeError")
                /\ UNCHANGED <<sx, sy, xticks, yticks, saved>>
           ELSE IF TicksRaise(x_min, x_max, TICK_COUNT)
           THEN /\ Raise("ValueError")
                /\ sx' = series
                /\ sy' = EvenlySpaced(NRows(data))
                /\ UNCHANGED <<xticks, yticks, saved>>
           ELSE /\ sx' = series
                /\ sy' = EvenlySpaced(NRows(data))
                /\ xticks' = get_plt_ticks(x_min, x_max, TICK_COUNT)
                /\ yticks' = get_plt_ticks(I(0), I(1), TICK_COUNT)
                /\ saved' = TRUE
                /\ error' = ""
                /\ exit_code' = 0
                /\ pc' = "exit"
    /\ UNCHANGED <<prog, file, opt, solver_names, instance_names, raw_data, data,
                   x_min, x_max, targs, tout>>

\* perfprof.py line 170: rnames, cnames, data = readTable(open(opt.input), opt.delimiter)
perfprof_read ==
    /\ prog = "perfprof"
    /\ pc = "read"
    /\ LET r == read_csv(file, opt.delimiter)
       IN  IF r.err # ""
           THEN /\ Raise(r.err)
                /\ UNCHANGED <<solver_names, instance_names, raw_data, data>>
           ELSE /\ solver_names' = r.solver_names
                /\ instance_names' = r.instance_names
                /\ raw_data' = r.data
                /\ data' = r.data
                /\ pc' = "check"
                /\ UNCHANGED <<error, exit_code>>
    /\ UNCHANGED <<prog, file, opt, x_min, x_max, sx, sy, xticks, yticks, saved,
                   targs, tout>>

\* perfprof.py lines 172-177: the names are cut, then an empty table makes
\* main return, which ends the run with status 0
perfprof_check_empty ==
    /\ prog = "perfprof"
    /\ pc = "check"
    /\ solver_names' = [i \in 1..Len(solver_names) |-> TruncatedName(solver_names[i])]
    /\ IF IsEmptyShape(data)
       THEN /\ error' = ""
            /\ exit_code' = 0
            /\ pc' = "exit"
       ELSE /\ pc' = "process"
            /\ UNCHANGED <<error, exit_code>>
    /\ UNCHANGED <<prog, file, opt, instance_names, raw_data, data,
                   x_min, x_max, sx, sy, xticks, yticks, saved, targs, tout>>

\* perfprof.py lines 179-212: shift, ratios, range, remap, equal-range guard
perfprof_process ==
    /\ prog = "perfprof"
    /\ pc = "process"
    /\ LET p == perfprof_transform(data, opt)
       IN  IF p.err # ""
           THEN /\ Raise(p.err)
                /\ UNCHANGED <<data, x_min, x_max>>
           ELSE /\ data' = p.data
                /\ x_min' = p.x_min
                /\ x_max' = p.x_max
                /\ pc' = "plot"
                /\ UNCHANGED <<error, exit_code>>
    /\ UNCHANGED <<prog, file, opt, solver_names, instance_names, raw_data,
                   sx, sy, xticks, yticks, saved, targs, tout>>

\* perfprof.py lines 214-249: sort in place, plot every column, ticks, savefig
perfprof_plot ==
    /\ prog = "perfprof"
    /\ pc = "plot"
    /\ LET x == SortColumns(data)
       IN  /\ data' = x
           /\ sx' = [j \in 1..NCols(x) |-> Column(x, j)]
           /\ sy' = EvenlySpaced(NRows(x))
           /\ IF TicksRaise(x_min, x_max, TICK_COUNT)
              THEN /\ Raise("ValueError")
                   /\ UNCHANGED <<xticks, yticks, saved>>
              ELSE /\ xticks' = perfprof_get_plt_ticks(x_min, x_max, TICK_COUNT)
                   /\ yticks' = perfprof_get_plt_ticks(I(0), I(1), TICK_COUNT)
                   /\ saved' = TRUE
                   /\ error' = ""
                   /\ exit_code' = 0
                   /\ pc' = "exit"
    /\ UNCHANGED <<prog, file, opt, solver_names, instance_names, raw_data,
                   x_min, x_max, targs, tout>>

Next ==
    \/ plot_read
    \/ plot_check_empty
    \/ plot_process_data
    \/ plot_generate_plot
    \/ perfprof_read
    \/ perfprof_check_empty
    \/ perfprof_process
    \/ perfprof_plot

\* a direct call get_plt_ticks(lb, ub, cnt) of either script
plot_ticks_call ==
    /\ pc = "ticks"
    /\ prog = "plot"
    /\ tout' = IF TicksRaise(targs.lb, targs.ub, targs.cnt) THEN <<>>
               ELSE get_plt_ticks(targs.lb, targs.ub, targs.cnt)
    /\ error' = IF TicksRaise(targs.lb, targs.ub, targs.cnt) THEN "ValueError" ELSE ""
    /\ pc' = "ticked"
    /\ UNCHANGED <<prog, file, opt, solver_names, instance_names, raw_data, data,
                   x_min, x_max, sx, sy, xticks, yticks, saved, exit_code, targs>>

perfprof_ticks_call ==
    /\ pc = "ticks"
    /\ prog = "perfprof"
    /\ tout' = IF TicksRaise(targs.lb, targs.ub, targs.cnt) THEN <<>>
               ELSE perfprof_get_plt_ticks(targs.lb, targs.ub, targs.cnt)
    /\ error' = IF TicksRaise(targs.lb, targs.ub, targs.cnt) THEN "ValueError" ELSE ""
    /\ pc' = "ticked"
    /\ UNCHANGED <<prog, file, opt, solver_names, instance_names, raw_data, data,
                   x_min, x_max, sx, sy, xticks, yticks, saved, exit_code, targs>>

NextTicks ==
    \/ plot_ticks_call
    \/ perfprof_ticks_call

-----------------------------------------------------------------------------
(* Inputs                                                                  *)

\* data rows of a numeric table
MaxRows == 2
\* data lines of a text file
MaxCsvRows == 2
\* value fields of a data line
MaxCsvFields == 2
\* tick counts 1..MaxCnt, besides the scripts' own 8
MaxCnt == 3

Algo1 == <<"a", "l", "g", "o", "1">>
Algo2 == <<"a", "l", "g", "o", "2">>
Inst1 == <<"i", "n", "s", "t", "1">>
Inst2 == <<"i", "n", "s", "t", "2">>
Id == <<"i", "d">>

RECURSIVE Join(_, _)
Join(fields, sep) ==
    IF fields = <<>> THEN <<>>
    ELSE IF Len(fields) = 1 THEN fields[1]
    ELSE fields[1] \o <<sep>> \o Join(Tail(fields), sep)

\* a line of the file as the iteration over fp yields it
Line(fields, sep) == Join(fields, sep) \o <<"\n">>

SeqsUpTo(S, n) == UNION {[1..k -> S] : k \in 0..n}

Comma == <<",">>

SepOf(delimiter) == IF delimiter = None THEN " " ELSE delimiter[1]

\* the command line defaults of the two scripts
PlotDefaults(delimiter) ==
    [delimiter |-> delimiter, x_min |-> None, x_max |-> None, shift |-> I(0),
     raw_data |-> FALSE, x_raw_lower_limit |-> None, x_raw_upper_limit |-> None]

PerfprofDefaults(delimiter) ==
    [delimiter |-> delimiter, x_min |-> None, x_max |-> None, shift |-> I(0),
     plot_as_ratios |-> FALSE, x_lower_limit |-> NegInf, x_upper_limit |-> Inf]

Start(p, f, o) ==
    /\ prog = p
    /\ pc = "read"
    /\ file = f
    /\ opt = o
    /\ solver_names = <<>>
    /\ instance_names = <<>>
    /\ raw_data = <<>>
    /\ data = <<>>
    /\ x_min = None
    /\ x_max = None
    /\ sx = <<>>
    /\ sy = <<>>
    /\ xticks = <<>>
    /\ yticks = <<>>
    /\ saved = FALSE
    /\ error = ""
    /\ exit_code = None
    /\ targs = None
    /\ tout = <<>>

\* --- text files: headers and data lines built from a few fields ---

ValueFields == {<<"2", ".", "0">>, <<"x">>}

Headers == {<<>>, <<Id>>, <<Id, Algo1>>, <<Id, Algo1, Algo2>>}

CsvRows == {<<Inst1>> \o v : v \in SeqsUpTo(ValueFields, MaxCsvFields)}

CsvFiles(sep) ==
    {<<Line(h, sep)>> \o [i \in 1..Len(b) |-> Line(b[i], sep)] :
        h \in Headers, b \in SeqsUpTo(CsvRows, MaxCsvRows)}
    \cup {<<>>}

\* the scenario of the specification's section 8, and the same data under a
\* header that starts with a row-label field
ScenarioRows ==
    <<Line(<<Inst1, <<"2", ".", "0">>, <<"4", ".", "0">>>>, ","),
      Line(<<Inst2, <<"3", ".", "0">>, <<"1", ".", "0">>>>, ",")>>

ScenarioFile == <<Line(<<Algo1, Algo2>>, ",")>> \o ScenarioRows

LabelledScenarioFile == <<Line(<<Id, Algo1, Algo2>>, ",")>> \o ScenarioRows

InitCsv ==
    \E p \in {"plot", "perfprof"}, delimiter \in {None, Comma} :
        \E f \in CsvFiles(SepOf(delimiter))
                 \cup (IF delimiter = Comma THEN {ScenarioFile, LabelledScenarioFile}
                       ELSE {}) :
            Start(p, f, IF p = "plot" THEN PlotDefaults(delimiter)
                        ELSE PerfprofDefaults(delimiter))

SpecCsv == InitCsv /\ [][Next]_vars

\* --- numeric tables with options ---

Solvers == <<Algo1, Algo2>>

Vals == {0, 1, 3}

Tables == UNION {[1..r -> [1..c -> Vals]] : r \in 1..MaxRows, c \in 1..Len(Solvers)}

Render(t) ==
    <<Line(<<Id>> \o SubSeq(Solvers, 1, Len(t[1])), ",")>>
    \o [i \in 1..Len(t) |->
           Line(<<Inst1>> \o [j \in 1..Len(t[i]) |-> <<DigitChars[t[i][j] + 1]>>], ",")]

XMinChoices == {None, I(1000003)}
XMaxChoices == {None, I(-1000003)}
ShiftChoices == {I(0), I(2)}
LowerChoices == {None, I(0), I(1)}
UpperChoices == {None, I(3)}

PlotOptions ==
    {[delimiter |-> Comma, x_min |-> a, x_max |-> b, shift |-> s, raw_data |-> r,
      x_raw_lower_limit |-> l, x_raw_upper_limit |-> u] :
        a \in XMinChoices, b \in XMaxChoices, s \in ShiftChoices, r \in BOOLEAN,
        l \in LowerChoices, u \in UpperChoices}

PerfprofOptions ==
    {[delimiter |-> Comma, x_min |-> a, x_max |-> b, shift |-> s, plot_as_ratios |-> r,
      x_lower_limit |-> IF l = None THEN NegInf ELSE l,
      x_upper_limit |-> IF u = None THEN Inf ELSE u] :
        a \in XMinChoices, b \in XMaxChoices, s \in ShiftChoices, r \in BOOLEAN,
        l \in LowerChoices, u \in UpperChoices}

Init ==
    \E t \in Tables :
        \/ \E o \in PlotOptions : Start("plot", Render(t), o)
        \/ \E o \in PerfprofOptions : Start("perfprof", Render(t), o)

Spec == Init /\ [][Next]_vars

\* --- direct calls of get_plt_ticks ---

TickBounds ==
    {I(0), I(1), I(5), Q(1, 3), Q(1, 1000), Q(5, 4), Q(12345, 10000), I(-2)}

InitTicks ==
    /\ prog \in {"plot", "perfprof"}
    /\ pc = "ticks"
    /\ targs \in [lb : TickBounds, ub : TickBounds, cnt : (1..MaxCnt) \cup {TICK_COUNT}]
    /\ tout = <<>>
    /\ file = <<>>
    /\ opt = None
    /\ solver_names = <<>>
    /\ instance_names = <<>>
    /\ raw_data = <<>>
    /\ data = <<>>
    /\ x_min = None
    /\ x_max = None
    /\ sx = <<>>
    /\ sy = <<>>
    /\ xticks = <<>>
    /\ yticks = <<>>
    /\ saved = FALSE
    /\ error = ""
    /\ exit_code = None

SpecTicks == InitTicks /\ [][NextTicks]_vars

-----------------------------------------------------------------------------
(* Properties                                                              *)

AllCells(m, P(_)) == \A c \in Cells(m) : P(m[c[1]][c[2]])

Positive(v) == Gt(v, I(0))

NonDecreasing(s) == \A i \in 1..(Len(s) - 1) : Le(s[i], s[i + 1])

StrictlyIncreasing(s) == \A i \in 1..(Len(s) - 1) : Lt(s[i], s[i + 1])

\* s is a rearrangement of t
IsPermutation(s, t) ==
    /\ Len(s) = Len(t)
    /\ \A v \in Range(s) \cup Range(t) :
          Cardinality({i \in 1..Len(s) : s[i] = v})
              = Cardinality({i \in 1..Len(t) : t[i] = v})

\* the rounding precision of the script that runs
RoundDigits == IF prog = "plot" THEN PLOT_ROUND_DIGITS ELSE PERFPROF_ROUND_DIGITS

\* the fields after the instance name on line i of the file
ValueFieldCount(i) == Len(Split(Strip(file[i]), opt.delimiter)) - 1

\* the solver names the header line of the file carries
HeaderSolverCount == IF file = <<>> THEN 0 ELSE ValueFieldCount(1)

\* the remap loop of process_data wrote the low / the high sentinel into cell c
RemappedLow(c) == RemapsLow(opt, raw_data, c[1], c[2])
RemappedHigh(c) == ~RemappedLow(c) /\ RemapsHigh(opt, raw_data, c[1], c[2])
NotRemapped(c) == ~RemappedLow(c) /\ ~RemappedHigh(c)

\* the lower and upper limit of the script that runs
LowerLimit == IF prog = "plot" THEN opt.x_raw_lower_limit ELSE opt.x_lower_limit
UpperLimit == IF prog = "plot" THEN opt.x_raw_upper_limit ELSE opt.x_upper_limit

\* the matrix the range is resolved on: after shift and normalization, before
\* the remap
BeforeRemap ==
    IF prog = "plot" THEN RatioData(raw_data, opt)
    ELSE IF opt.plot_as_ratios
    THEN DividedByRow(Shifted(raw_data, opt.shift),
                      RowMinima(Shifted(raw_data, opt.shift)))
    ELSE Shifted(raw_data, opt.shift)

\* C1: in ratio mode of process_data, for a table of strictly positive entries
\* and a shift that keeps them positive, every row of the matrix before the
\* out-of-bound remap has minimum exactly 1 and no entry below 1.
C1_RatioRowMinimumIsOne ==
    (/\ prog = "plot"
     /\ pc = "plot"
     /\ ~opt.raw_data
     /\ AllCells(raw_data, Positive)
     /\ AllCells(Shifted(raw_data, opt.shift), Positive))
    => \A i \in 1..NRows(raw_data) :
          /\ MinOfSet(Range(RatioData(raw_data, opt)[i])) = I(1)
          /\ \A j \in 1..NCols(raw_data) : Ge(RatioData(raw_data, opt)[i][j], I(1))

\* the outcome the scenario of section 8 states
ScenarioOutcome ==
    /\ solver_names = <<Algo1, Algo2>>
    /\ RowMinima(raw_data) = <<I(2), I(1)>>
    /\ data = <<<<I(1), I(2)>>, <<I(3), I(1)>>>>
    /\ SortAsc(Column(data, 1)) = <<I(1), I(3)>>
    /\ SortAsc(Column(data, 2)) = <<I(1), I(2)>>
    /\ x_min = I(1)
    /\ x_max = I(3)

\* C2 as stated: plot.py on the file "algo1,algo2 / inst1,2.0,4.0 / inst2,3.0,1.0"
\* with ratio normalization and shift 0 reads and transforms the table to two
\* solver columns algo1, algo2, row minima [2, 1], matrix [[1, 2], [3, 1]],
\* sorted columns [1, 3] and [1, 2], x_min = 1 and x_max = 3.
C2_ScenarioAsStated ==
    (prog = "plot" /\ file = ScenarioFile /\ pc \in {"plot", "exit"})
    => (x_min # None /\ ScenarioOutcome)

\* C2 amended: when the header line carries a leading row-label field,
\* "id,algo1,algo2", plot.py reads and transforms the file to two solver
\* columns algo1, algo2, row minima [2, 1], matrix [[1, 2], [3, 1]], whose
\* columns in ascending order are [1, 3] and [1, 2], x_min = 1 and x_max = 3;
\* generate_plot then raises TypeError and hands no series to the renderer.
C2_ScenarioWithLabelledHeader ==
    (/\ prog = "plot"
     /\ file = LabelledScenarioFile
     /\ ~opt.raw_data
     /\ opt.shift = I(0)
     /\ pc \in {"plot", "exit"})
    => /\ x_min # None
       /\ ScenarioOutcome
       /\ pc = "exit" => (error = "TypeError" /\ sx = <<>> /\ ~saved)

C2_Witness ==
    /\ prog = "plot"
    /\ file = LabelledScenarioFile
    /\ pc = "plot"
    /\ ~opt.raw_data
    /\ opt.shift = I(0)
    /\ opt.delimiter = Comma

\* C3: the reader returns a table only when every data line has exactly as
\* many value fields as the header has solver names; a line with fewer or with
\* more value fields makes it fail with a parse error.
C3_MismatchedRowIsRejected ==
    (/\ pc # "read"
     /\ HeaderSolverCount >= 1
     /\ \E i \in 2..Len(file) : ValueFieldCount(i) # HeaderSolverCount)
    => (pc = "exit" /\ error \in {"IndexError", "ValueError"} /\ raw_data = <<>>)

\* C4: on an input of a header line and no data lines both scripts end with
\* a non-zero exit status, and no transform, rendering or saving step has run.
C4_EmptyTableIsFatal ==
    (pc = "exit" /\ Len(file) = 1 /\ HeaderSolverCount >= 1)
    => (/\ exit_code # 0
        /\ x_min = None
        /\ x_max = None
        /\ sx = <<>>
        /\ ~saved)

\* C6 as stated: for lo < hi the ticks contain lo and hi themselves; for
\* lo == hi the call does not raise and returns at least two distinct values.
C6_TicksContainBounds ==
    (pc = "ticked")
    => /\ Lt(targs.lb, targs.ub)
          => (error = "" /\ targs.lb \in Range(tout) /\ targs.ub \in Range(tout))
       /\ Eq(targs.lb, targs.ub)
          => (error = "" /\ Cardinality(Range(tout)) >= 2)

\* C6 amended: for lo < hi the ticks contain lo and hi rounded to the script's
\* precision (3 decimals in plot.py, 2 in perfprof.py); for lo == hi the call
\* does not raise and returns at least two distinct values.
C6_TicksContainRoundedBounds ==
    (pc = "ticked")
    => /\ Lt(targs.lb, targs.ub)
          => (/\ error = ""
              /\ Round(targs.lb, RoundDigits) \in Range(tout)
              /\ Round(targs.ub, RoundDigits) \in Range(tout))
       /\ Eq(targs.lb, targs.ub)
          => (error = "" /\ Cardinality(Range(tout)) >= 2)

C6_Witness ==
    /\ pc = "ticked"
    /\ Lt(targs.lb, targs.ub)
    /\ Round(targs.lb, RoundDigits) # targs.lb
    /\ Round(targs.ub, RoundDigits) # targs.ub
    /\ targs.cnt = TICK_COUNT

\* C7: the ticks returned are pairwise distinct.
C7_TicksAreDistinct ==
    (pc = "ticked")
    => \A i, j \in 1..Len(tout) : i # j => tout[i] # tout[j]

\* C5 as stated: after the remap of process_data, for every table whose matrix
\* before the remap holds finite numbers only and for every configuration, every cell remapped low is strictly less than every cell not
\* remapped, and every cell remapped high is strictly greater than every cell
\* not remapped.
C5_ClampMonotonic ==
    (prog = "plot" /\ pc = "plot" /\ AllCells(BeforeRemap, IsFinite))
    => \A c, k \in Cells(data) :
          /\ (RemappedLow(c) /\ NotRemapped(k)) => Lt(data[c[1]][c[2]], data[k[1]][k[2]])
          /\ (RemappedHigh(c) /\ NotRemapped(k)) => Gt(data[c[1]][c[2]], data[k[1]][k[2]])

\* C5 amended: after the remap of process_data, when the matrix before the
\* remap holds finite numbers only, every cell remapped low is strictly less
\* than every cell not remapped provided x_min was derived from the data, and
\* every cell remapped high is strictly greater than every cell not remapped
\* provided x_max was derived from the data.
C5_ClampMonotonicForDerivedBounds ==
    (/\ prog = "plot"
     /\ pc = "plot"
     /\ AllCells(BeforeRemap, IsFinite))
    => \A c, k \in Cells(data) :
          /\ (opt.x_min = None /\ RemappedLow(c) /\ NotRemapped(k))
             => Lt(data[c[1]][c[2]], data[k[1]][k[2]])
          /\ (opt.x_max = None /\ RemappedHigh(c) /\ NotRemapped(k))
             => Gt(data[c[1]][c[2]], data[k[1]][k[2]])

C5_Witness ==
    /\ prog = "plot"
    /\ pc = "plot"
    /\ opt.x_min = None
    /\ opt.x_max = None
    /\ AllCells(BeforeRemap, IsFinite)
    /\ \E c, k, h \in Cells(data) :
          /\ RemappedLow(c)
          /\ NotRemapped(k)
          /\ RemappedHigh(h)
          /\ data[c[1]][c[2]] = Sub(x_min, I(EPS))
          /\ data[h[1]][h[2]] = Add(x_max, I(EPS))

\* C8: for every processed matrix of finite numbers with at least one row, generate_plot of
\* plot.py hands the renderer, for each solver column j, a non-decreasing
\* rearrangement of column j of the processed matrix, paired with
\* y[i] = i / nrows, strictly increasing within [0, 1); the processed matrix
\* is not reordered.
C8_SeriesAreSortedColumns ==
    (/\ prog = "plot"
     /\ pc = "exit"
     /\ x_min # None
     /\ NRows(data) >= 1
     /\ AllCells(BeforeRemap, IsFinite))
    => /\ Len(sx) = NCols(data)
       /\ \A j \in 1..Len(sx) :
             /\ NonDecreasing(sx[j])
             /\ IsPermutation(sx[j], Column(data, j))
       /\ sy = EvenlySpaced(NRows(data))
       /\ StrictlyIncreasing(sy)
       /\ \A i \in 1..Len(sy) : Ge(sy[i], I(0)) /\ Lt(sy[i], I(1))
       /\ data = process_data(raw_data, opt).data

\* C9: the range the transform returns is never zero-width: for every table
\* that is finite after normalization and every configuration x_min and x_max are finite numbers with x_min < x_max,
\* and x_max is x_min + 1 when the resolved bounds were equal.
C9_RangeIsNeverEmpty ==
    (pc = "plot" /\ AllCells(BeforeRemap, IsFinite))
    => /\ IsFinite(x_min)
       /\ IsFinite(x_max)
       /\ Lt(x_min, x_max)
       /\ (opt.x_min = None /\ opt.x_max = None
            /\ Cardinality(CellValues(BeforeRemap)) = 1)
          => x_max = Add(x_min, I(1))

\* C10: with no explicit x_min the transform resolves x_min to
\* max(lower limit, min of the data before the remap); with no explicit x_max
\* it resolves x_max to min(upper limit, max of the data before the remap),
\* unless the degenerate-range guard replaced it.
C10_DerivedRangeIsBoundedByLimits ==
    (pc = "plot" /\ AllCells(BeforeRemap, IsFinite))
    => /\ opt.x_min = None
          => x_min = (IF LowerLimit = None THEN DataMin(BeforeRemap)
                      ELSE PyMax(LowerLimit, DataMin(BeforeRemap)))
       /\ opt.x_max = None
          => \/ x_max = (IF UpperLimit = None THEN DataMax(BeforeRemap)
                         ELSE PyMin(UpperLimit, DataMax(BeforeRemap)))
             \/ x_max = Add(x_min, I(1))

=============================================================================
